---- MODULE Spec2Model ----
(***************************************************************************)
(* User ledger and referral economy of the Ghibli bot (src/utils.py,       *)
(* src/ghibli.py, src/config.py).                                          *)
(*                                                                         *)
(* The persisted JSON document is the variable disk.  Every function of    *)
(* utils.py is an operator from the document on disk (and its arguments)   *)
(* to a record [disk, ret, writes]: the document on disk when the function *)
(* returns, its return value, and the documents it handed to               *)
(* save_database, in order.  load_database returns a fresh copy of the     *)
(* document on every call, so a dict loaded earlier does not see later     *)
(* saves.  The functions of utils.py contain no await: each call is one    *)
(* action.  ghibli_command awaits between its quota pre-check and its      *)
(* commit, so it is two actions with other handlers in between.            *)
(*                                                                         *)
(* User ids are integers; str(user_id) and int(user_id_str) are mutually   *)
(* inverse on them, so the string keys of the document are the ids.        *)
(* Dates are day numbers.  None is 0 for referred_by and NoTime for        *)
(* last_generation_time; an unset referral_code is "".                     *)
(***************************************************************************)
EXTENDS Integers, Sequences, FiniteSets, Bags, TLC

\* ---------------------------------------------------------------- bounds
NumUsers == 2
MaxDay == 1
MaxOps == 3
NumReferralUsers == 6
MaxReferralOps == 8
MaxDailyOps == 4
NumTopUsers == 15
MaxTopOps == 2
MaxCalls == 4
MaxClock == 1
MaxUpsertOps == 2
MaxGateOps == 6

\* ----------------------------------------------------- config.py values
daily_limit == 2
vip_daily_limit == 5
referrer_bonus == 2
referee_bonus == 1
min_uses_for_extra_bonus == 5
extra_bonus == 3
max_entries == 10

owner_ids == {123456789}
admin_ids == {234567890, 345678901}
moderator_ids == {456789012, 567890123}

\* ------------------------------------------------------------ input sets
Users == 1..NumUsers
ReferralUsers == 1..NumReferralUsers
DailyUsers == {1, 2} \cup owner_ids
TopUsers == 1..NumTopUsers
AllUsers == Users \cup ReferralUsers \cup DailyUsers \cup TopUsers
Days == 0..MaxDay
Codes == {"c1", "c2"}
Amounts == {-1000, -1, 1}
RoleNames == {"user", "vip"}
Names == {"n"}

NoTime == -1
EmptyMap == [x \in {} |-> 0]

max(a, b) == IF a >= b THEN a ELSE b

\* ------------------------------------------------------------- schemas
get_database_schema ==
  [users |-> EmptyMap,
   stats |-> [total_generations |-> 0, total_users |-> 0,
              top_users |-> <<>>, top_referrers |-> <<>>],
   referrals |-> [active_links |-> EmptyMap, total_conversions |-> 0]]

\* get_user_schema stamping the day before
get_user_schema_yesterday(u, day) ==
  [user_id |-> u, username |-> "", first_name |-> "", last_name |-> "",
   role |-> "user", remaining_limit |-> daily_limit, total_generations |-> 0,
   last_reset_date |-> day - 1, last_generation_time |-> NoTime,
   referral |-> [referral_code |-> "", referred_by |-> 0,
                 referred_users |-> <<>>, total_referrals |-> 0,
                 bonus_claimed |-> FALSE]]

get_user_schema(u, day) ==
  [user_id |-> u, username |-> "", first_name |-> "", last_name |-> "",
   role |-> "user", remaining_limit |-> daily_limit, total_generations |-> 0,
   last_reset_date |-> day, last_generation_time |-> NoTime,
   referral |-> [referral_code |-> "", referred_by |-> 0,
                 referred_users |-> <<>>, total_referrals |-> 0,
                 bonus_claimed |-> FALSE]]

\* ------------------------------------------------------ user management
USER_ROLES ==
  << [role |-> "owner", user_ids |-> owner_ids, permissions |-> {"all"}],
     [role |-> "admin", user_ids |-> admin_ids,
      permissions |-> {"manage_limits", "broadcast", "view_stats"}],
     [role |-> "moderator", user_ids |-> moderator_ids,
      permissions |-> {"view_stats", "add_limit"}] >>

\* lines 262-264: the loop over CONFIG["users"].items(), a dict, which
\* iterates in the order the roles are written; "" when the loop ends
\* without a return
RECURSIVE static_role(_, _, _)
static_role(cfg, i, u) ==
  IF i > Len(cfg) THEN ""
  ELSE IF u \in cfg[i].user_ids THEN cfg[i].role
  ELSE static_role(cfg, i + 1, u)

\* get_user_role_in consulting the stored record before the configuration
get_user_role_in_stored(cfg, dsk, u) ==
  IF u \in DOMAIN dsk.users /\ "role" \in DOMAIN dsk.users[u]
  THEN dsk.users[u].role
  ELSE IF static_role(cfg, 1, u) # "" THEN static_role(cfg, 1, u)
  ELSE "user"

\* get_user_role under the configuration cfg
get_user_role_in(cfg, dsk, u) ==
  IF static_role(cfg, 1, u) # "" THEN static_role(cfg, 1, u)
  ELSE IF u \in DOMAIN dsk.users
  THEN IF "role" \in DOMAIN dsk.users[u] THEN dsk.users[u].role ELSE "user"
  ELSE "user"

get_user_role(dsk, u) == get_user_role_in(USER_ROLES, dsk, u)

\* the permissions CONFIG["users"][role]["permissions"]; {} when role is not
\* a key of CONFIG["users"]
RECURSIVE role_permissions(_, _, _)
role_permissions(cfg, i, role) ==
  IF i > Len(cfg) THEN {}
  ELSE IF cfg[i].role = role THEN cfg[i].permissions
  ELSE role_permissions(cfg, i + 1, role)

\* has_permission without the wildcard
has_permission_noall(cfg, dsk, u, permission) ==
  LET role == get_user_role_in(cfg, dsk, u)
  IN IF role = "owner" THEN TRUE
     ELSE IF \E i \in 1..Len(cfg) : cfg[i].role = role
     THEN permission \in role_permissions(cfg, 1, role)
     ELSE FALSE

has_permission(cfg, dsk, u, permission) ==
  LET role == get_user_role_in(cfg, dsk, u)
  IN IF role = "owner" THEN TRUE
     ELSE IF \E i \in 1..Len(cfg) : cfg[i].role = role
     THEN \/ permission \in role_permissions(cfg, 1, role)
          \/ "all" \in role_permissions(cfg, 1, role)
     ELSE FALSE

\* get_user_data resetting every role to daily_limit
get_user_data_norole(dsk, u, day) ==
  IF u \notin DOMAIN dsk.users
  THEN LET user_data == get_user_schema(u, day)
           db == [dsk EXCEPT !.users = (u :> user_data) @@ @,
                             !.stats.total_users = @ + 1]
       IN [disk |-> db, ret |-> user_data, writes |-> <<db>>]
  ELSE LET user_data == dsk.users[u] IN
       IF user_data.last_reset_date # day
       THEN LET ud == [user_data EXCEPT !.remaining_limit = daily_limit,
                                        !.last_reset_date = day]
                db == [dsk EXCEPT !.users[u] = ud]
            IN [disk |-> db, ret |-> ud, writes |-> <<db>>]
       ELSE [disk |-> dsk, ret |-> user_data, writes |-> <<>>]

\* get_user_data creating a record without counting it in total_users
get_user_data_nocount(dsk, u, day) ==
  IF u \notin DOMAIN dsk.users
  THEN LET user_data == get_user_schema(u, day)
           db == [dsk EXCEPT !.users = (u :> user_data) @@ @]
       IN [disk |-> db, ret |-> user_data, writes |-> <<db>>]
  ELSE LET user_data == dsk.users[u] IN
       IF user_data.last_reset_date # day
       THEN LET ud == [user_data EXCEPT
                         !.remaining_limit =
                            IF get_user_role(dsk, u) = "vip"
                            THEN vip_daily_limit ELSE daily_limit,
                         !.last_reset_date = day]
                db == [dsk EXCEPT !.users[u] = ud]
            IN [disk |-> db, ret |-> ud, writes |-> <<db>>]
       ELSE [disk |-> dsk, ret |-> user_data, writes |-> <<>>]

get_user_data(dsk, u, day) ==
  IF u \notin DOMAIN dsk.users
  THEN LET user_data == get_user_schema(u, day)
           db == [dsk EXCEPT !.users = (u :> user_data) @@ @,
                             !.stats.total_users = @ + 1]
       IN [disk |-> db, ret |-> user_data, writes |-> <<db>>]
  ELSE LET user_data == dsk.users[u] IN
       IF user_data.last_reset_date # day
       THEN LET ud == [user_data EXCEPT
                         !.remaining_limit =
                            IF get_user_role(dsk, u) = "vip"
                            THEN vip_daily_limit ELSE daily_limit,
                         !.last_reset_date = day]
                db == [dsk EXCEPT !.users[u] = ud]
            IN [disk |-> db, ret |-> ud, writes |-> <<db>>]
       ELSE [disk |-> dsk, ret |-> user_data, writes |-> <<>>]

\* dict.update: the keys of b win, the other keys of a stay
DictUpdate(a, b) ==
  [k \in (DOMAIN a) \cup (DOMAIN b) |-> IF k \in DOMAIN b THEN b[k] ELSE a[k]]

\* the loop of update_user_data over update_data.items(); "referral" is the
\* only modelled key whose value is a dict on both sides
MergeUser(rec, update_data) ==
  [k \in DOMAIN rec |->
     IF k \in DOMAIN update_data
     THEN IF k = "referral" THEN DictUpdate(rec[k], update_data[k])
          ELSE update_data[k]
     ELSE rec[k]]

\* update_user_data storing update_data as a new record for an unknown user
update_user_data_create(dsk, u, update_data) ==
  LET db == IF u \in DOMAIN dsk.users
            THEN [dsk EXCEPT !.users[u] = MergeUser(@, update_data)]
            ELSE [dsk EXCEPT !.users = (u :> update_data) @@ @]
  IN [disk |-> db, ret |-> TRUE, writes |-> <<db>>]

update_user_data(dsk, u, update_data) ==
  IF u \in DOMAIN dsk.users
  THEN LET db == [dsk EXCEPT !.users[u] = MergeUser(@, update_data)]
       IN [disk |-> db, ret |-> TRUE, writes |-> <<db>>]
  ELSE [disk |-> dsk, ret |-> FALSE, writes |-> <<>>]

\* modify_user_limit without the max(0, ...)
modify_user_limit_noclamp(dsk, u, amount, day) ==
  LET g == get_user_data(dsk, u, day)
      new_limit == g.ret.remaining_limit + amount
      up == update_user_data(g.disk, u, [remaining_limit |-> new_limit])
  IN [disk |-> up.disk, ret |-> <<up.ret, new_limit>>,
      writes |-> g.writes \o up.writes]

\* modify_user_limit returning the sum it computed before clamping
modify_user_limit_retsum(dsk, u, amount, day) ==
  LET g == get_user_data(dsk, u, day)
      new_limit == max(0, g.ret.remaining_limit + amount)
      up == update_user_data(g.disk, u, [remaining_limit |-> new_limit])
  IN [disk |-> up.disk, ret |-> <<up.ret, g.ret.remaining_limit + amount>>,
      writes |-> g.writes \o up.writes]

modify_user_limit(dsk, u, amount, day) ==
  LET g == get_user_data(dsk, u, day)
      new_limit == max(0, g.ret.remaining_limit + amount)
      up == update_user_data(g.disk, u, [remaining_limit |-> new_limit])
  IN [disk |-> up.disk, ret |-> <<up.ret, new_limit>>,
      writes |-> g.writes \o up.writes]

\* ---------------------------------------------------------- leaderboards
\* the entry update_top_list appends: sort_key names the metric's field
TopEntry(user_id, user_data, sort_key) ==
  (sort_key :> user_data[sort_key]) @@
  [user_id |-> user_id, username |-> user_data.username,
   first_name |-> user_data.first_name, last_name |-> user_data.last_name]

\* the loop over the list: the first entry of user_id gets the new metric,
\* username and first_name (not last_name); the loop breaks after it
RECURSIVE UpdateFound(_, _, _, _)
UpdateFound(lst, user_id, user_data, sort_key) ==
  IF lst = <<>> THEN <<>>
  ELSE IF Head(lst).user_id = user_id
       THEN <<[Head(lst) EXCEPT ![sort_key] = user_data[sort_key],
                                !.username = user_data.username,
                                !.first_name = user_data.first_name]>>
            \o Tail(lst)
       ELSE <<Head(lst)>> \o UpdateFound(Tail(lst), user_id, user_data, sort_key)

\* e goes after every entry whose metric is >= its own
RECURSIVE InsertDesc(_, _, _)
InsertDesc(lst, e, sort_key) ==
  IF lst = <<>> THEN <<e>>
  ELSE IF Head(lst)[sort_key] >= e[sort_key]
       THEN <<Head(lst)>> \o InsertDesc(Tail(lst), e, sort_key)
       ELSE <<e>> \o lst

\* sorted(lst, key=lambda x: x[sort_key], reverse=True): stable, descending
RECURSIVE sorted_desc(_, _)
sorted_desc(lst, sort_key) ==
  IF lst = <<>> THEN <<>>
  ELSE InsertDesc(sorted_desc(SubSeq(lst, 1, Len(lst) - 1), sort_key),
                  lst[Len(lst)], sort_key)

\* [:max_entries] keeping the tail of the list instead of its head
Truncate_tail(lst, n) ==
  SubSeq(lst, IF Len(lst) < n THEN 1 ELSE Len(lst) - n + 1, Len(lst))

Truncate(lst, n) == SubSeq(lst, 1, IF Len(lst) < n THEN Len(lst) ELSE n)

\* update_top_list without the search for the user's entry: always appends
update_top_list_append(db, list_name, user_id, user_data, sort_key) ==
  IF sort_key \notin DOMAIN user_data
  THEN [raised |-> TRUE, db |-> db]
  ELSE [raised |-> FALSE,
        db |-> [db EXCEPT !.stats[list_name] =
                   Truncate(sorted_desc(
                     Append(@, TopEntry(user_id, user_data, sort_key)),
                     sort_key), max_entries)]]

\* raised: user_data[sort_key] is a KeyError when user_data has no such key;
\* it is raised before db is touched
update_top_list(db, list_name, user_id, user_data, sort_key) ==
  IF sort_key \notin DOMAIN user_data
  THEN [raised |-> TRUE, db |-> db]
  ELSE LET lst == db.stats[list_name]
           found == \E i \in 1..Len(lst) : lst[i].user_id = user_id
           upd == IF found THEN UpdateFound(lst, user_id, user_data, sort_key)
                  ELSE Append(lst, TopEntry(user_id, user_data, sort_key))
       IN [raised |-> FALSE,
           db |-> [db EXCEPT !.stats[list_name] =
                      Truncate(sorted_desc(upd, sort_key), max_entries)]]

\* update_user_stats listing the count the handler read at its pre-check
update_user_stats_before(dsk, u, user_data) ==
  LET db == [dsk EXCEPT !.stats.total_generations = @ + 1]
      top == update_top_list(db, "top_users", u,
                             [user_data EXCEPT !.total_generations = @ - 1],
                             "total_generations")
  IN [disk |-> top.db, ret |-> TRUE, writes |-> <<top.db>>]

update_user_stats(dsk, u, user_data) ==
  LET db == [dsk EXCEPT !.stats.total_generations = @ + 1]
      top == update_top_list(db, "top_users", u, user_data, "total_generations")
  IN [disk |-> top.db, ret |-> TRUE, writes |-> <<top.db>>]

\* ------------------------------------------------------------- referrals
\* the result of a call that was not made
NoCall(dsk) == [disk |-> dsk, ret |-> <<FALSE, 0>>, writes |-> <<>>]

\* ref_code is the value generate_referral_code would return (an md5 of the
\* id and the clock, cut to 8 characters: any code); stale_writes counts the
\* saves of a document loaded before another save happened
create_referral_link(dsk, u, ref_code, day) ==
  LET db == dsk
      g == get_user_data(dsk, u, day)
      user_data == g.ret
  IN IF user_data.referral.referral_code = ""
     THEN LET referral == [user_data.referral EXCEPT !.referral_code = ref_code]
              up == update_user_data(g.disk, u, [referral |-> referral])
              db1 == [db EXCEPT !.referrals.active_links =
                         (ref_code :> [user_id |-> u, uses |-> 0]) @@ @]
          IN [disk |-> db1, ret |-> <<"ref_", u>>, code |-> ref_code,
              writes |-> g.writes \o up.writes \o <<db1>>,
              stale_writes |-> IF Len(g.writes \o up.writes) > 0 THEN 1 ELSE 0]
     ELSE [disk |-> g.disk, ret |-> <<"ref_", u>>,
           code |-> user_data.referral.referral_code,
           writes |-> g.writes, stale_writes |-> 0]

\* process_referral, one operator per stretch of the function, last stretch
\* first.  db is the document loaded at line 398, w the documents saved so
\* far, and the third argument the result of the nested call just made.
Reject(dsk, w) ==
  [disk |-> dsk, outcome |-> "fail", referrer |-> 0, writes |-> w,
   stale_writes |-> 0]

\* lines 448-451: update_top_list works on db, the document of line 398
RedeemTop(db1, w, dsk, referrer_id, referrer_data) ==
  LET top == update_top_list(db1, "top_referrers", referrer_id,
                             referrer_data, "total_referrals")
  IN IF top.raised
     THEN [disk |-> dsk, outcome |-> "raise", referrer |-> referrer_id,
           writes |-> w, stale_writes |-> 0]
     ELSE [disk |-> top.db, outcome |-> "ok", referrer |-> referrer_id,
           writes |-> Append(w, top.db), stale_writes |-> 1]

\* lines 444-445, after modify_user_limit(referrer, extra_bonus) returned m3
RedeemExtraClaim(db1, w, m3, referrer_id, referrer_data) ==
  LET claimed == [referrer_data EXCEPT !.referral.bonus_claimed = TRUE]
      u3 == update_user_data(m3.disk, referrer_id,
                             [referral |-> claimed.referral])
  IN RedeemTop(db1, w \o m3.writes \o u3.writes, u3.disk, referrer_id, claimed)

\* lines 436-443, after the update of the referrer's referral returned u2
RedeemExtra(db, w, u2, referrer_id, ref_code, referrer_data, day) ==
  LET db1 == [db EXCEPT !.referrals.active_links[ref_code].uses = @ + 1,
                        !.referrals.total_conversions = @ + 1]
  IN IF /\ ~referrer_data.referral.bonus_claimed
        /\ Len(referrer_data.referral.referred_users)
             >= min_uses_for_extra_bonus
     THEN RedeemExtraClaim(db1, w \o u2.writes,
            modify_user_limit(u2.disk, referrer_id, extra_bonus, day),
            referrer_id, referrer_data)
     ELSE RedeemTop(db1, w \o u2.writes, u2.disk, referrer_id, referrer_data)

\* lines 430-433, after modify_user_limit(referrer, referrer_bonus) returned
\* m2; referrer_data is the record get_user_data returned before the bonus
RedeemReferrerUpdate(db, w, m2, referee_id, referrer_id, ref_code, referrer_data, day) ==
  LET ru == referrer_data.referral.referred_users
      updated == [referrer_data EXCEPT
                    !.referral.referred_users =
                       IF \E i \in 1..Len(ru) : ru[i] = referee_id
                       THEN ru ELSE Append(ru, referee_id),
                    !.referral.total_referrals = @ + 1]
  IN RedeemExtra(db, w \o m2.writes,
       update_user_data(m2.disk, referrer_id, [referral |-> updated.referral]),
       referrer_id, ref_code, updated, day)

\* lines 425-427, after get_user_data(referrer) returned g2
RedeemReferrer(db, w, g2, referee_id, referrer_id, ref_code, day) ==
  RedeemReferrerUpdate(db, w \o g2.writes,
    modify_user_limit(g2.disk, referrer_id, referrer_bonus, day),
    referee_id, referrer_id, ref_code, g2.ret, day)

\* lines 421-426, after modify_user_limit(referee, referee_bonus) returned
\* m1; referee_data is the record get_user_data returned before the bonus
RedeemRefereeUpdate(db, w, m1, referee_id, referrer_id, ref_code, referee_data, day) ==
  LET u1 == update_user_data(m1.disk, referee_id,
              [referral |-> [referee_data.referral EXCEPT
                               !.referred_by = referrer_id]])
  IN RedeemReferrer(db, w \o m1.writes \o u1.writes,
       get_user_data(u1.disk, referrer_id, day),
       referee_id, referrer_id, ref_code, day)

\* RedeemReferee without the referred_by check of lines 413-414
RedeemReferee_nocheck(db, g1, referee_id, referrer_id, ref_code, day) ==
  RedeemRefereeUpdate(db, g1.writes,
    modify_user_limit(g1.disk, referee_id, referee_bonus, day),
    referee_id, referrer_id, ref_code, g1.ret, day)

\* lines 413-418, after get_user_data(referee) returned g1
RedeemReferee(db, g1, referee_id, referrer_id, ref_code, day) ==
  IF g1.ret.referral.referred_by # 0
  THEN Reject(g1.disk, g1.writes)
  ELSE RedeemRefereeUpdate(db, g1.writes,
         modify_user_limit(g1.disk, referee_id, referee_bonus, day),
         referee_id, referrer_id, ref_code, g1.ret, day)

\* process_referral without the self-referral check of lines 408-409
process_referral_noself(dsk, referee_id, ref_code, day) ==
  IF ref_code \notin DOMAIN dsk.referrals.active_links
  THEN Reject(dsk, <<>>)
  ELSE RedeemReferee(dsk, get_user_data(dsk, referee_id, day), referee_id,
                     dsk.referrals.active_links[ref_code].user_id,
                     ref_code, day)

\* outcome: "fail" is (False, None), "ok" is (True, referrer_data), "raise"
\* is the KeyError of update_top_list leaving the function
process_referral(dsk, referee_id, ref_code, day) ==
  IF ref_code \notin DOMAIN dsk.referrals.active_links
  THEN Reject(dsk, <<>>)
  ELSE IF referee_id = dsk.referrals.active_links[ref_code].user_id
  THEN Reject(dsk, <<>>)
  ELSE RedeemReferee(dsk, get_user_data(dsk, referee_id, day), referee_id,
                     dsk.referrals.active_links[ref_code].user_id,
                     ref_code, day)

\* ------------------------------------------------------------------ files
\* What a file holds: nothing (the file does not exist), the complete JSON
\* text of a store, a prefix of that text (open(.., 'w') truncates, json.dump
\* writes piece by piece), text that is not JSON, or bytes that are not
\* UTF-8.  A store is told by v (its contents) and meta.last_backup (0 for
\* None, 1 for a timestamp).
Absent == [kind |-> "absent"]
Doc(db) == [kind |-> "doc", db |-> db]
Partial(db) == [kind |-> "partial", db |-> db]
Garbage(n) == [kind |-> "garbage", id |-> n]
Undecodable(n) == [kind |-> "undecodable", id |-> n]

\* get_database_schema as a file-level store
DefaultDb == [v |-> 0, last_backup |-> 0]

\* primary is users_data.json, temp users_data.json.temp, backups the
\* snapshots in the backup folder, corrupt the quarantined files by the
\* int(time.time()) of their name, clock that time; pc is the position of
\* the call in progress, db the dict it saves, before the primary when the
\* save started, prior the files when the outermost call started
NoFiles ==
  [primary |-> Doc(DefaultDb), temp |-> Absent, backups |-> {},
   corrupt |-> EmptyMap, clock |-> 0, calls |-> 0,
   pc |-> "idle", op |-> "none", caller |-> "none", ret |-> "none",
   db |-> DefaultDb, due |-> TRUE, before |-> Doc(DefaultDb),
   prior |-> [primary |-> Doc(DefaultDb), corrupt |-> EmptyMap],
   fault |-> FALSE, read_failed |-> FALSE, committed |-> FALSE,
   killed_at |-> "none"]

\* ------------------------------------------------------------------ state
VARIABLES
  disk,    \* the persisted document (users_data.json)
  today,   \* datetime.now().strftime("%Y-%m-%d"), as a day number
  gen,     \* bag of the ghibli_command handlers between pre-check and commit
  ops,     \* number of steps the run may still make
  last,    \* the call that led to this state and how it ended
  pre,     \* the document on disk when that call started
  writes,  \* the documents that call handed to save_database, in order
  done,    \* per user, the number of generations committed
  fs       \* the files of save_database / load_database and the call on them

vars == <<disk, today, gen, ops, last, pre, writes, done, fs>>

Call(op, u, code, amount, outcome, val, stale_writes) ==
  [op |-> op, u |-> u, code |-> code, amount |-> amount,
   outcome |-> outcome, val |-> val, stale_writes |-> stale_writes,
   repeat |-> FALSE]

Init ==
  /\ disk = get_database_schema
  /\ today = 0
  /\ gen = EmptyBag
  /\ ops = MaxOps
  /\ last = Call("init", 0, "", 0, "ok", 0, 0)
  /\ pre = get_database_schema
  /\ writes = <<>>
  /\ done = [u \in AllUsers |-> 0]
  /\ fs = NoFiles

\* the effect of one call of a utils.py function on the ghost variables;
\* repeat tells that the call before was the same function for the same user
Returned(r, call) ==
  /\ ops > 0
  /\ ops' = ops - 1
  /\ pre' = disk
  /\ disk' = r.disk
  /\ writes' = r.writes
  /\ last' = [call EXCEPT !.repeat = (last.op = call.op /\ last.u = call.u)]
  /\ UNCHANGED fs

\* limit_command, stats_command, ...: utils.get_user_data(user.id)
GetUserData(u) ==
  LET r == get_user_data(disk, u, today) IN
  /\ Returned(r, Call("get_user_data", u, "", 0, "ok", r.ret.remaining_limit, 0))
  /\ UNCHANGED <<today, gen, done>>

\* add_limit_command, reduce_limit_command, button_callback
ModifyUserLimit(u, amount) ==
  LET r == modify_user_limit(disk, u, amount, today) IN
  /\ Returned(r, Call("modify_user_limit", u, "", amount,
                      IF r.ret[1] THEN "ok" ELSE "fail", r.ret[2], 0))
  /\ UNCHANGED <<today, gen, done>>

\* referral_command, referral_callback
CreateReferralLink(u, c) ==
  LET r == create_referral_link(disk, u, c, today) IN
  /\ Returned(r, Call("create_referral_link", u, r.code, 0, "ok", 0,
                      r.stale_writes))
  /\ UNCHANGED <<today, gen, done>>

\* start_command with a referral start parameter
ProcessReferral(u, c) ==
  LET r == process_referral(disk, u, c, today) IN
  /\ Returned(r, Call("process_referral", u, c, 0, r.outcome, r.referrer,
                      r.stale_writes))
  /\ UNCHANGED <<today, gen, done>>

\* start_command, lines 179-185: the profile fields of the record just read
StartCommand(u, name) ==
  LET g == get_user_data(disk, u, today)
      user_data == [g.ret EXCEPT !.username = name, !.first_name = name,
                                 !.last_name = name]
      up == update_user_data(g.disk, u, user_data)
      r == [disk |-> up.disk, writes |-> g.writes \o up.writes]
  IN /\ Returned(r, Call("start_command", u, "", 0, "ok", 0, 0))
     /\ UNCHANGED <<today, gen, done>>

\* button_callback, action "role"
SetRole(u, new_role) ==
  LET g == get_user_data(disk, u, today)
      user_data == [g.ret EXCEPT !.role = new_role]
      up == update_user_data(g.disk, u, user_data)
      r == [disk |-> up.disk, writes |-> g.writes \o up.writes]
  IN /\ Returned(r, Call("set_role", u, "", 0, "ok", 0, 0))
     /\ UNCHANGED <<today, gen, done>>

\* ghibli_command up to the quota pre-check; with quota left the handler
\* keeps user_data and awaits the download and the image model
GhibliPrecheck(u) ==
  LET g == get_user_data(disk, u, today)
      r == [disk |-> g.disk, writes |-> g.writes]
  IN /\ IF g.ret.remaining_limit <= 0
        THEN /\ Returned(r, Call("ghibli_precheck", u, "", 0, "fail", 0, 0))
             /\ gen' = gen
        ELSE /\ Returned(r, Call("ghibli_precheck", u, "", 0, "ok",
                                 g.ret.remaining_limit, 0))
             /\ gen' = gen (+) SetToBag({[u |-> u, user_data |-> g.ret]})
     /\ UNCHANGED <<today, done>>

\* ghibli_command, lines 705-710, after generate_ghibli_image returned
GhibliCommit(h) ==
  /\ LET u == h.u
         user_data == [h.user_data EXCEPT
                         !.remaining_limit = @ - 1,
                         !.total_generations = @ + 1,
                         !.last_generation_time = today]
         up == update_user_data(disk, u, user_data)
         st == update_user_stats(up.disk, u, user_data)
         r == [disk |-> st.disk, writes |-> up.writes \o st.writes]
     IN /\ Returned(r, Call("ghibli_commit", u, "", 0, "ok",
                            user_data.remaining_limit, 0))
        /\ done' = [done EXCEPT ![u] = @ + 1]
  /\ gen' = gen (-) SetToBag({h})
  /\ UNCHANGED today

\* GhibliFail debiting the ledger as a successful generation does
GhibliFail_debit(h) ==
  /\ LET u == h.u
         user_data == [h.user_data EXCEPT
                         !.remaining_limit = @ - 1,
                         !.total_generations = @ + 1,
                         !.last_generation_time = today]
         up == update_user_data(disk, u, user_data)
         st == update_user_stats(up.disk, u, user_data)
         r == [disk |-> st.disk, writes |-> up.writes \o st.writes]
     IN Returned(r, Call("ghibli_fail", u, "", 0, "fail", 0, 0))
  /\ gen' = gen (-) SetToBag({h})
  /\ UNCHANGED <<today, done>>

\* ghibli_command, lines 757-771: the image model raised
GhibliFail(h) ==
  /\ Returned([disk |-> disk, writes |-> <<>>],
              Call("ghibli_fail", h.u, "", 0, "fail", 0, 0))
  /\ gen' = gen (-) SetToBag({h})
  /\ UNCHANGED <<today, done>>

\* midnight
NextDay ==
  /\ today < MaxDay
  /\ ops > 0
  /\ ops' = ops - 1
  /\ today' = today + 1
  /\ last' = Call("next_day", 0, "", 0, "ok", 0, 0)
  /\ pre' = disk
  /\ writes' = <<>>
  /\ UNCHANGED <<disk, gen, done, fs>>

Next ==
  \/ \E u \in Users : GetUserData(u)
  \/ \E u \in Users, amount \in Amounts : ModifyUserLimit(u, amount)
  \/ \E u \in Users, c \in Codes : CreateReferralLink(u, c)
  \/ \E u \in Users, c \in Codes : ProcessReferral(u, c)
  \/ \E u \in Users, name \in Names : StartCommand(u, name)
  \/ \E u \in Users, r \in RoleNames : SetRole(u, r)
  \/ \E u \in Users : GhibliPrecheck(u)
  \/ \E h \in BagToSet(gen) : GhibliCommit(h)
  \/ \E h \in BagToSet(gen) : GhibliFail(h)
  \/ NextDay

Spec == Init /\ [][Next]_vars

\* the referral economy alone, with enough referees and calls to reach the
\* extra-bonus threshold
InitReferral ==
  /\ disk = get_database_schema
  /\ today = 0
  /\ gen = EmptyBag
  /\ ops = MaxReferralOps
  /\ last = Call("init", 0, "", 0, "ok", 0, 0)
  /\ pre = get_database_schema
  /\ writes = <<>>
  /\ done = [u \in AllUsers |-> 0]
  /\ fs = NoFiles

NextReferral ==
  \/ CreateReferralLink(1, "c1")
  \/ \E u \in ReferralUsers : ProcessReferral(u, "c1")
  \/ \E u \in Users : GhibliPrecheck(u)
  \/ \E h \in BagToSet(gen) : GhibliCommit(h)

SpecReferral == InitReferral /\ [][NextReferral]_vars

\* the ledger across midnight: quota resets, role changes and redemptions
\* for two plain users and the configured owner
InitDaily ==
  /\ disk = get_database_schema
  /\ today = 0
  /\ gen = EmptyBag
  /\ ops = MaxDailyOps
  /\ last = Call("init", 0, "", 0, "ok", 0, 0)
  /\ pre = get_database_schema
  /\ writes = <<>>
  /\ done = [u \in AllUsers |-> 0]
  /\ fs = NoFiles

NextDaily ==
  \/ \E u \in DailyUsers : GetUserData(u)
  \/ \E u \in DailyUsers : ModifyUserLimit(u, -1000)
  \/ \E u \in DailyUsers : SetRole(u, "vip")
  \/ CreateReferralLink(1, "c1")
  \/ \E u \in DailyUsers : ProcessReferral(u, "c1")
  \/ NextDay

SpecDaily == InitDaily /\ [][NextDaily]_vars

\* ------------------------------------------------- update_top_list alone
\* the two leaderboards and the metric each is sorted by
TopLists ==
  {[list_name |-> "top_users", sort_key |-> "total_generations"],
   [list_name |-> "top_referrers", sort_key |-> "total_referrals"]}

\* the part of a user record update_top_list reads
TopUserData(sort_key, v) ==
  (sort_key :> v) @@ [username |-> "n", first_name |-> "n", last_name |-> "n"]

\* pairwise distinct metric values, in an order unrelated to the ids
TopMetric(u) == (u * 7) % 17

\* one call of update_top_list on the document in memory, with the ghost
\* variables telling which call it was
TopCall(ln, u, v) ==
  LET top == update_top_list(disk, ln.list_name, u,
                             TopUserData(ln.sort_key, v), ln.sort_key)
  IN /\ disk' = top.db
     /\ pre' = disk
     /\ writes' = <<>>
     /\ last' = Call("update_top_list", u, ln.list_name, v,
                     IF top.raised THEN "raise" ELSE "ok", 0, 0)
     /\ UNCHANGED <<today, gen, fs>>

\* update_top_list called once for each user, in any order, from the empty
\* list
InitTopOnce ==
  /\ disk = get_database_schema
  /\ today = 0
  /\ gen = EmptyBag
  /\ ops = 0
  /\ last = Call("init", 0, "", 0, "ok", 0, 0)
  /\ pre = get_database_schema
  /\ writes = <<>>
  /\ done = [u \in AllUsers |-> 0]
  /\ fs = NoFiles

TopInsert(u) ==
  /\ done[u] = 0
  /\ disk' = update_top_list(disk, "top_users", u,
                             TopUserData("total_generations", TopMetric(u)),
                             "total_generations").db
  /\ done' = [done EXCEPT ![u] = 1]
  /\ UNCHANGED <<today, gen, ops, last, pre, writes, fs>>

NextTopOnce == \E u \in TopUsers : TopInsert(u)

SpecTopOnce == InitTopOnce /\ [][NextTopOnce]_vars

\* update_top_list on leaderboards that are empty, one short of full or
\* full, for users inside and outside the list, with metrics below, among
\* and above the listed ones
TopFills == {0, max_entries - 1, max_entries}
TopListUsers == 1..(max_entries + 2)
TopValues == {1, 3, 5}

\* k entries of users 1..k, sorted descending with ties (metrics 2..4)
Prefill(k, sort_key) ==
  [i \in 1..k |-> TopEntry(i, TopUserData(sort_key, 2 + (k - i) \div 4),
                           sort_key)]

InitTopList ==
  /\ \E k \in TopFills :
       disk = [get_database_schema EXCEPT
                 !.stats.top_users = Prefill(k, "total_generations"),
                 !.stats.top_referrers = Prefill(k, "total_referrals")]
  /\ today = 0
  /\ gen = EmptyBag
  /\ ops = MaxTopOps
  /\ last = Call("init", 0, "", 0, "ok", 0, 0)
  /\ pre = disk
  /\ writes = <<>>
  /\ done = [u \in AllUsers |-> 0]
  /\ fs = NoFiles

TopUpdate(ln, u, v) ==
  /\ ops > 0
  /\ ops' = ops - 1
  /\ TopCall(ln, u, v)
  /\ UNCHANGED done

NextTopList ==
  \E ln \in TopLists, u \in TopListUsers, v \in TopValues : TopUpdate(ln, u, v)

SpecTopList == InitTopList /\ [][NextTopList]_vars

\* ------------------------------------------------- referral links
\* A start parameter is modelled by its pieces between the underscores,
\* which is what extract_referral_code works on.
Digits == <<"1", "2", "3", "4", "5", "6", "7", "8", "9">>

\* str(user_id)
IdStr(u) == Digits[u]

\* create_referral_link, lines 388-394: the start parameter of the link
\* made from referral_link_format "https://t.me/{bot_username}?start=
\* ref_{user_id}"; ref_code is passed to format and the format has no
\* {ref_code} field
referral_start_parameter(user_id, ref_code) == <<"ref", IdStr(user_id)>>

None == "None"

\* extract_referral_code: startswith("ref_") holds when the first piece is
\* "ref" and a second piece exists; parts[1] is the second piece
extract_referral_code(parts) ==
  IF Len(parts) >= 2 /\ parts[1] = "ref" THEN parts[2] ELSE None

\* the codes registered for owner in active_links
RegisteredCodes(dsk, owner) ==
  {c \in DOMAIN dsk.referrals.active_links :
     dsk.referrals.active_links[c].user_id = owner}

\* start_command (lines 150-185) run by user u with the start parameter of
\* the link create_referral_link returned to owner for the code c
StartWithLink(u, owner, c, name) ==
  LET start_param == referral_start_parameter(owner, c)
      ref_code == extract_referral_code(start_param)
      p == IF ref_code # None /\ ref_code # ""
           THEN process_referral(disk, u, ref_code, today)
           ELSE [disk |-> disk, outcome |-> "fail", referrer |-> 0,
                 writes |-> <<>>, stale_writes |-> 0]
      g == get_user_data(p.disk, u, today)
      user_data == [g.ret EXCEPT !.username = name, !.first_name = name,
                                 !.last_name = name]
      up == update_user_data(g.disk, u, user_data)
      r == IF p.outcome = "raise"
           THEN [disk |-> p.disk, writes |-> p.writes]
           ELSE [disk |-> up.disk, writes |-> p.writes \o g.writes \o up.writes]
  IN /\ c \in RegisteredCodes(disk, owner)
     /\ Returned(r, Call("start_link", u, ref_code, 0, p.outcome, owner,
                         p.stale_writes))
     /\ UNCHANGED <<today, gen, done>>

NextLink ==
  \/ \E u \in Users, c \in Codes : CreateReferralLink(u, c)
  \/ \E u \in Users, owner \in Users, c \in Codes, name \in Names :
       StartWithLink(u, owner, c, name)

SpecLink == Init /\ [][NextLink]_vars

\* ------------------------------------------- generations on one day
\* ghibli_command handlers only: no reset, no grant, no referral bonus
InitGate ==
  /\ disk = get_database_schema
  /\ today = 0
  /\ gen = EmptyBag
  /\ ops = MaxGateOps
  /\ last = Call("init", 0, "", 0, "ok", 0, 0)
  /\ pre = get_database_schema
  /\ writes = <<>>
  /\ done = [u \in AllUsers |-> 0]
  /\ fs = NoFiles

NextGate ==
  \/ \E u \in Users : GhibliPrecheck(u)
  \/ \E h \in BagToSet(gen) : GhibliCommit(h)
  \/ \E h \in BagToSet(gen) : GhibliFail(h)

SpecGate == InitGate /\ [][NextGate]_vars

\* ----------------------------------- update_top_list, entry by entry
\* update_top_list on the prefilled leaderboards with user records whose
\* names differ from the listed ones, for users at the head, in the middle
\* and at the tail of the list and outside it
TopUpsertUsers == {1, 5, max_entries, max_entries + 1}
TopNames == {"n", "m"}

TopNamedData(sort_key, v, name) ==
  (sort_key :> v) @@
  [username |-> name, first_name |-> name, last_name |-> name]

TopUpsertCall(op, ln, u, user_data, outcome) ==
  [op |-> op, list_name |-> ln.list_name, sort_key |-> ln.sort_key, u |-> u,
   user_data |-> user_data, outcome |-> outcome]

InitTopUpsert ==
  /\ \E k \in TopFills :
       disk = [get_database_schema EXCEPT
                 !.stats.top_users = Prefill(k, "total_generations"),
                 !.stats.top_referrers = Prefill(k, "total_referrals")]
  /\ today = 0
  /\ gen = EmptyBag
  /\ ops = MaxUpsertOps
  /\ last = TopUpsertCall("init", [list_name |-> "", sort_key |-> ""], 0,
                          EmptyMap, "ok")
  /\ pre = disk
  /\ writes = <<>>
  /\ done = [u \in AllUsers |-> 0]
  /\ fs = NoFiles

TopUpsert(ln, u, v, name) ==
  LET user_data == TopNamedData(ln.sort_key, v, name)
      top == update_top_list(disk, ln.list_name, u, user_data, ln.sort_key)
  IN /\ ops > 0
     /\ ops' = ops - 1
     /\ disk' = top.db
     /\ pre' = disk
     /\ last' = TopUpsertCall("update_top_list", ln, u, user_data,
                              IF top.raised THEN "raise" ELSE "ok")
     /\ UNCHANGED <<today, gen, writes, done, fs>>

NextTopUpsert ==
  \E ln \in TopLists, u \in TopUpsertUsers, v \in TopValues,
     name \in TopNames : TopUpsert(ln, u, v, name)

SpecTopUpsert == InitTopUpsert /\ [][NextTopUpsert]_vars

\* ------------------------------------ update_user_data on its own
\* The handlers call update_user_data after get_user_data; here it is also
\* called for identities that were never seen.
UpdateData == {[remaining_limit |-> 0], [remaining_limit |-> 3],
               [role |-> "vip"]}

UpdateUserData(u, update_data) ==
  LET r == update_user_data(disk, u, update_data) IN
  /\ Returned(r, Call("update_user_data", u, "", 0,
                      IF r.ret THEN "ok" ELSE "fail", 0, 0))
  /\ UNCHANGED <<today, gen, done>>

NextLedger ==
  \/ \E u \in Users : GetUserData(u)
  \/ \E u \in Users, amount \in Amounts : ModifyUserLimit(u, amount)
  \/ \E u \in Users, update_data \in UpdateData : UpdateUserData(u, update_data)
  \/ NextDay

SpecLedger == Init /\ [][NextLedger]_vars

\* ------------------------------------- save_database and load_database
\* One action per file operation of save_database, so that a kill of the
\* process and a reader of the files can come between any two of them.  ok
\* tells whether the operation succeeds or raises an OSError.
SaveVersions == {1, 2}

\* the except branch is entered: lines 200-201
SaveRaise(f) == [f EXCEPT !.pc = "except", !.fault = TRUE]

\* save_database returns r to its caller; load_database (line 167) drops the
\* result and returns the db it built
SaveReturn(f, r) ==
  [f EXCEPT !.pc = "idle",
            !.ret = IF f.caller = "load" THEN "db" ELSE r]

\* a caller hands a store to save_database; due tells whether the
\* last_backup it carries is older than backup_interval hours (line 192)
SaveDatabase(v, due) ==
  /\ fs.pc = "idle" /\ fs.calls < MaxCalls
  /\ LET lb == IF fs.primary.kind = "doc" THEN fs.primary.db.last_backup
               ELSE 0
     IN /\ (lb = 0 => due)
        /\ fs' = [fs EXCEPT !.pc = "open_temp", !.op = "save_database",
                            !.caller = "save", !.ret = "none",
                            !.db = [v |-> v, last_backup |-> lb],
                            !.due = due, !.before = fs.primary,
                            !.prior = [primary |-> fs.primary,
                                       corrupt |-> fs.corrupt],
                            !.fault = FALSE, !.read_failed = FALSE,
                            !.committed = FALSE, !.killed_at = "none",
                            !.calls = @ + 1]
  /\ UNCHANGED <<disk, today, gen, ops, last, pre, writes, done>>

\* SaveDumpTemp writing the store into the primary document itself
SaveDumpTemp_inplace(ok) ==
  /\ fs.pc = "dump_temp"
  /\ fs' = IF ok THEN [fs EXCEPT !.primary = Doc(fs.db), !.temp = Doc(fs.db),
                                 !.pc = "replace"]
           ELSE SaveRaise(fs)
  /\ UNCHANGED <<disk, today, gen, ops, last, pre, writes, done>>

\* line 180: open(temp_file, 'w')
SaveOpenTemp(ok) ==
  /\ fs.pc = "open_temp"
  /\ fs' = IF ok THEN [fs EXCEPT !.temp = Partial(fs.db), !.pc = "dump_temp"]
           ELSE SaveRaise(fs)
  /\ UNCHANGED <<disk, today, gen, ops, last, pre, writes, done>>

\* line 181: json.dump(db, f) into the temporary file
SaveDumpTemp(ok) ==
  /\ fs.pc = "dump_temp"
  /\ fs' = IF ok THEN [fs EXCEPT !.temp = Doc(fs.db), !.pc = "replace"]
           ELSE SaveRaise(fs)
  /\ UNCHANGED <<disk, today, gen, ops, last, pre, writes, done>>

\* lines 184-187: os.replace / os.rename of the temporary file
SaveReplace(ok) ==
  /\ fs.pc = "replace"
  /\ fs' = IF ok THEN [fs EXCEPT !.primary = fs.temp, !.temp = Absent,
                                 !.committed = TRUE, !.pc = "backup"]
           ELSE SaveRaise(fs)
  /\ UNCHANGED <<disk, today, gen, ops, last, pre, writes, done>>

\* lines 189-194: auto_backup is True.  backup_database (lines 61-83) copies
\* the primary document: o = "ok" is a copy made, "false" a copy that raises
\* inside its try (lines 76-83), "raise" an error outside it (os.makedirs at
\* line 71, datetime.fromisoformat at line 192), which reaches line 200
BackupOutcomes == {"ok", "false", "raise"}

SaveBackup(o) ==
  /\ fs.pc = "backup"
  /\ IF o = "raise"
     THEN fs' = SaveRaise(fs)
     ELSE IF fs.db.last_backup = 0 \/ fs.due
     THEN fs' = IF o = "ok"
                THEN [fs EXCEPT !.backups = @ \cup {fs.primary.db},
                                !.db.last_backup = 1, !.pc = "reopen"]
                ELSE [fs EXCEPT !.pc = "return_true", !.fault = TRUE]
     ELSE o = "ok" /\ fs' = [fs EXCEPT !.pc = "return_true"]
  /\ UNCHANGED <<disk, today, gen, ops, last, pre, writes, done>>

\* line 196: open(db_file, 'w') truncates the primary document
SaveReopen(ok) ==
  /\ fs.pc = "reopen"
  /\ fs' = IF ok THEN [fs EXCEPT !.primary = Partial(fs.db), !.pc = "redump"]
           ELSE SaveRaise(fs)
  /\ UNCHANGED <<disk, today, gen, ops, last, pre, writes, done>>

\* line 197: json.dump(db, f) into the primary document
SaveRedump(ok) ==
  /\ fs.pc = "redump"
  /\ fs' = IF ok THEN [fs EXCEPT !.primary = Doc(fs.db), !.pc = "return_true"]
           ELSE SaveRaise(fs)
  /\ UNCHANGED <<disk, today, gen, ops, last, pre, writes, done>>

\* line 199
SaveReturnTrue ==
  /\ fs.pc = "return_true"
  /\ fs' = SaveReturn(fs, "true")
  /\ UNCHANGED <<disk, today, gen, ops, last, pre, writes, done>>

\* lines 200-204: the temporary file is removed if it exists
SaveExcept ==
  /\ fs.pc = "except"
  /\ fs' = SaveReturn([fs EXCEPT !.temp = Absent], "false")
  /\ UNCHANGED <<disk, today, gen, ops, last, pre, writes, done>>

\* the process is killed inside save_database
Kill ==
  /\ fs.pc # "idle"
  /\ fs' = [fs EXCEPT !.pc = "idle", !.ret = "killed", !.fault = TRUE,
                      !.killed_at = fs.pc]
  /\ UNCHANGED <<disk, today, gen, ops, last, pre, writes, done>>

\* lines 160-163: the primary document is renamed to
\* <db_file>.corrupt.<int(time.time())>; os.rename replaces a file of that
\* name.  Lines 165-167 follow: save_database(get_database_schema())
Quarantine(f) ==
  [f EXCEPT !.corrupt = (f.clock :> f.primary) @@ @,
            !.primary = Absent, !.before = Absent,
            !.pc = "open_temp", !.db = DefaultDb, !.due = TRUE]

\* load_database; ok tells whether open and read succeed or raise an
\* OSError.  json.load raises JSONDecodeError on text that is not JSON and
\* UnicodeDecodeError, which line 157 does not catch, on bytes that are not
\* UTF-8.
LoadDatabase(ok) ==
  /\ fs.pc = "idle" /\ fs.calls < MaxCalls
  /\ LET f == [fs EXCEPT !.op = "load_database", !.caller = "load",
                         !.ret = "none", !.before = fs.primary,
                         !.prior = [primary |-> fs.primary,
                                    corrupt |-> fs.corrupt],
                         !.fault = FALSE, !.read_failed = FALSE,
                         !.committed = FALSE, !.killed_at = "none",
                         !.calls = @ + 1]
     IN IF fs.primary.kind = "absent"
        THEN ok /\ fs' = [f EXCEPT !.pc = "open_temp", !.db = DefaultDb,
                                   !.due = TRUE]
        ELSE IF ~ok
        THEN fs' = Quarantine([f EXCEPT !.fault = TRUE, !.read_failed = TRUE])
        ELSE IF fs.primary.kind = "doc"
        THEN fs' = [f EXCEPT !.ret = "db", !.db = fs.primary.db]
        ELSE IF fs.primary.kind = "undecodable"
        THEN fs' = [f EXCEPT !.ret = "raised"]
        ELSE fs' = Quarantine(f)
  /\ UNCHANGED <<disk, today, gen, ops, last, pre, writes, done>>

\* the primary document is damaged from outside the program
Corrupt ==
  /\ fs.pc = "idle" /\ fs.calls < MaxCalls
  /\ fs.primary.kind = "doc"
  /\ \E c \in {Garbage(fs.calls), Undecodable(fs.calls)} :
       fs' = [fs EXCEPT !.primary = c, !.op = "none", !.ret = "none",
                        !.calls = @ + 1]
  /\ UNCHANGED <<disk, today, gen, ops, last, pre, writes, done>>

\* time.time() moves to the next second
Tick ==
  /\ fs.pc = "idle" /\ fs.clock < MaxClock
  /\ fs' = [fs EXCEPT !.clock = @ + 1]
  /\ UNCHANGED <<disk, today, gen, ops, last, pre, writes, done>>

InitFiles ==
  /\ disk = get_database_schema
  /\ today = 0
  /\ gen = EmptyBag
  /\ ops = 0
  /\ last = Call("init", 0, "", 0, "ok", 0, 0)
  /\ pre = get_database_schema
  /\ writes = <<>>
  /\ done = [u \in AllUsers |-> 0]
  /\ \E p \in {Absent, Doc(DefaultDb)} :
       fs = [NoFiles EXCEPT !.primary = p, !.before = p, !.prior.primary = p]

NextFiles ==
  \/ \E v \in SaveVersions, due \in BOOLEAN : SaveDatabase(v, due)
  \/ \E ok \in BOOLEAN : SaveOpenTemp(ok)
  \/ \E ok \in BOOLEAN : SaveDumpTemp(ok)
  \/ \E ok \in BOOLEAN : SaveReplace(ok)
  \/ \E o \in BackupOutcomes : SaveBackup(o)
  \/ \E ok \in BOOLEAN : SaveReopen(ok)
  \/ \E ok \in BOOLEAN : SaveRedump(ok)
  \/ SaveReturnTrue
  \/ SaveExcept
  \/ Kill
  \/ \E ok \in BOOLEAN : LoadDatabase(ok)
  \/ Corrupt
  \/ Tick

SpecFiles == InitFiles /\ [][NextFiles]_vars

\* ---------------------------------------- get_user_role, has_permission
\* Identities: one of each configured role and one the configuration does
\* not name.
RoleIds == {123456789, 234567890, 456789012, 1}
StoredRoles == {"user", "vip", "moderator", "admin", "owner"}
Permissions == {"manage_limits", "broadcast", "view_stats", "add_limit",
                "ban"}

\* USER_ROLES as an operator may edit it: an identity listed under two
\* roles, and a role other than owner holding the wildcard
SharedRoles ==
  << [role |-> "owner", user_ids |-> {123456789},
      permissions |-> {"all"}],
     [role |-> "admin", user_ids |-> {123456789, 234567890},
      permissions |-> {"all"}],
     [role |-> "moderator", user_ids |-> {234567890, 456789012},
      permissions |-> {"view_stats", "add_limit"}] >>

RoleConfigs == {USER_ROLES, SharedRoles}

\* a stored record without the role field
WithoutRole(rec) == [f \in DOMAIN rec \ {"role"} |-> rec[f]]

StoredRecords(u) ==
  {[get_user_schema(u, 0) EXCEPT !.role = r] : r \in StoredRoles}
    \cup {WithoutRole(get_user_schema(u, 0))}

RoleCall(op, cfg, u, permission, ret) ==
  [op |-> op, cfg |-> cfg, u |-> u, permission |-> permission, ret |-> ret]

InitRoles ==
  /\ \E users \in {EmptyMap}
                 \cup UNION {{u :> rec : rec \in StoredRecords(u)} :
                             u \in RoleIds} :
       disk = [get_database_schema EXCEPT !.users = users]
  /\ today = 0
  /\ gen = EmptyBag
  /\ ops = 0
  /\ last = RoleCall("init", USER_ROLES, 0, "", "")
  /\ pre = get_database_schema
  /\ writes = <<>>
  /\ done = [u \in AllUsers |-> 0]
  /\ fs = NoFiles

GetUserRole(cfg, u) ==
  /\ last' = RoleCall("get_user_role", cfg, u, "",
                      get_user_role_in(cfg, disk, u))
  /\ UNCHANGED <<disk, today, gen, ops, pre, writes, done, fs>>

HasPermission(cfg, u, permission) ==
  /\ last' = RoleCall("has_permission", cfg, u, permission,
                      has_permission(cfg, disk, u, permission))
  /\ UNCHANGED <<disk, today, gen, ops, pre, writes, done, fs>>

NextRoles ==
  \/ \E cfg \in RoleConfigs, u \in RoleIds : GetUserRole(cfg, u)
  \/ \E cfg \in RoleConfigs, u \in RoleIds, p \in Permissions :
       HasPermission(cfg, u, p)

SpecRoles == InitRoles /\ [][NextRoles]_vars

\* ------------------------------------------------ admin buttons
\* Callback data is modelled by its pieces between the underscores, which
\* is what button_callback works on.
\* int(s) of a piece written by str
IdNum(s) == CHOOSE n \in 1..Len(Digits) : Digits[n] = s

\* user_stats_command, lines 558-571: the callback data of the buttons shown
\* to user for the target; the target is a key of db["users"] (line 525)
user_stats_keyboard(dsk, user, target_id) ==
  IF has_permission(USER_ROLES, dsk, user, "manage_limits")
  THEN {<<"admin", "add", "limit", IdStr(target_id), "5">>,
        <<"admin", "reduce", "limit", IdStr(target_id), "5">>}
       \cup IF get_user_role(dsk, user) = "owner"
            THEN {<<"admin", "role", IdStr(target_id), "vip">>,
                  <<"admin", "role", IdStr(target_id), "user">>}
            ELSE {}
  ELSE {}

\* lines 798-803
required_permission(action) ==
  IF action = "add_limit" \/ action = "reduce_limit" THEN "manage_limits"
  ELSE IF action = "role" THEN "all"
  ELSE "view_stats"

\* button_callback, lines 790-865, for data that starts with "admin_";
\* parts = data.split("_"), so parts[1] of the source is parts[2] here
button_callback(dsk, user, parts, day) ==
  LET action == parts[2] IN
  IF Len(parts) < 3
  THEN [disk |-> dsk, writes |-> <<>>, outcome |-> "ignored"]
  ELSE IF ~has_permission(USER_ROLES, dsk, user, required_permission(action))
  THEN [disk |-> dsk, writes |-> <<>>, outcome |-> "denied"]
  ELSE IF action = "add_limit" /\ Len(parts) >= 4
  THEN LET m == modify_user_limit(dsk, IdNum(parts[3]), IdNum(parts[4]), day)
       IN [disk |-> m.disk, writes |-> m.writes, outcome |-> "limit"]
  ELSE IF action = "reduce_limit" /\ Len(parts) >= 4
  THEN LET m == modify_user_limit(dsk, IdNum(parts[3]), -IdNum(parts[4]), day)
       IN [disk |-> m.disk, writes |-> m.writes, outcome |-> "limit"]
  ELSE IF action = "role" /\ Len(parts) >= 4
  THEN LET g == get_user_data(dsk, IdNum(parts[3]), day)
           user_data == [g.ret EXCEPT !.role = parts[4]]
           up == update_user_data(g.disk, IdNum(parts[3]), user_data)
       IN [disk |-> up.disk, writes |-> g.writes \o up.writes,
           outcome |-> "role"]
  ELSE [disk |-> dsk, writes |-> <<>>, outcome |-> "nothing"]

\* user presses one of the buttons user_stats_command showed for the target
PressButton(user, target_id, parts) ==
  LET r == button_callback(disk, user, parts, today) IN
  /\ target_id \in DOMAIN disk.users
  /\ parts \in user_stats_keyboard(disk, user, target_id)
  /\ Returned(r, Call("button_callback", target_id, parts[2], 0, r.outcome,
                      user, 0))
  /\ UNCHANGED <<today, gen, done>>

ButtonData ==
  UNION {{<<"admin", "add", "limit", IdStr(t), "5">>,
          <<"admin", "reduce", "limit", IdStr(t), "5">>,
          <<"admin", "role", IdStr(t), "vip">>,
          <<"admin", "role", IdStr(t), "user">>} : t \in Users}

NextButtons ==
  \/ \E u \in Users : GetUserData(u)
  \/ \E user \in RoleIds, t \in Users, parts \in ButtonData :
       PressButton(user, t, parts)
  \/ NextDay

SpecButtons == Init /\ [][NextButtons]_vars

\* ============================================================== claims
Known(d) == DOMAIN d.users
Quota(d, u) == d.users[u].remaining_limit
Ref(d, u) == d.users[u].referral
Occurrences(seq, x) == Cardinality({i \in 1..Len(seq) : seq[i] = x})

\* a redemption that passed the three checks of process_referral
Redeemed == last.op = "process_referral" /\ last.outcome # "fail"

\* C1 (as claimed): single referral per referee.  Once a redemption has set
\* B's persisted referred_by to A, B's record keeps referred_by = A in every
\* later persisted state and no later process_referral(B, c) is accepted.
C1_Original ==
  [][\A b \in Known(disk) :
       Ref(disk, b).referred_by # 0 =>
         /\ b \in Known(disk')
         /\ Ref(disk', b).referred_by = Ref(disk, b).referred_by
         /\ ~(last'.op = "process_referral" /\ last'.u = b
              /\ last'.outcome # "fail")]_vars

\* C2 (as claimed): a redemption of A's code by B that passes the checks
\* returns success, and the store then holds B with referred_by = A and B's
\* quota raised by referee_bonus over B's quota before the call.
C2_Original ==
  Redeemed =>
    /\ last.outcome = "ok"
    /\ last.u \in Known(disk)
    /\ Ref(disk, last.u).referred_by = last.val
    /\ last.u \in Known(pre) =>
         Quota(disk, last.u) = Quota(pre, last.u) + referee_bonus

\* C3 (as claimed): a redemption of A's code by B that passes the checks
\* returns success, and the store then holds A with quota raised by
\* referrer_bonus, B exactly once in referred_users and total_referrals one
\* higher than before the call.
C3_Original ==
  (Redeemed /\ last.val \in Known(pre)) =>
    /\ last.outcome = "ok"
    /\ last.val \in Known(disk)
    /\ Quota(disk, last.val) = Quota(pre, last.val) + referrer_bonus
    /\ Occurrences(Ref(disk, last.val).referred_users, last.u) = 1
    /\ Ref(disk, last.val).total_referrals
         = Ref(pre, last.val).total_referrals + 1

\* C4 (as claimed): the bonus tier fires exactly once.  bonus_claimed, once
\* true, stays true; it becomes true only in a successful redemption that
\* brings len(referred_users) to min_uses_for_extra_bonus, and that
\* redemption raises the referrer's quota by referrer_bonus + extra_bonus.
C4_Original ==
  [][\A a \in Known(disk) :
       /\ Ref(disk, a).bonus_claimed =>
            a \in Known(disk') /\ Ref(disk', a).bonus_claimed
       /\ (a \in Known(disk') /\ ~Ref(disk, a).bonus_claimed
           /\ Ref(disk', a).bonus_claimed) =>
            /\ last'.op = "process_referral" /\ last'.val = a
            /\ last'.outcome = "ok"
            /\ Len(Ref(disk', a).referred_users) = min_uses_for_extra_bonus
            /\ Quota(disk', a) = Quota(disk, a) + referrer_bonus + extra_bonus
    ]_vars

\* C5 (as claimed): create_referral_link is idempotent.  After a call the
\* user's persisted record holds the code the call worked with, that code is
\* registered in active_links for the user, and a call for a user who already
\* had a code keeps that code and leaves active_links as it was.
C5_Original ==
  last.op = "create_referral_link" =>
    /\ last.u \in Known(disk)
    /\ Ref(disk, last.u).referral_code = last.code
    /\ last.code \in DOMAIN disk.referrals.active_links
    /\ disk.referrals.active_links[last.code].user_id = last.u
    /\ (last.u \in Known(pre) /\ Ref(pre, last.u).referral_code # "") =>
         /\ last.code = Ref(pre, last.u).referral_code
         /\ disk.referrals.active_links = pre.referrals.active_links

\* C6 (as claimed): every composite operation is one load-mutate-save
\* critical section: no call saves a document that it loaded before another
\* save (of a nested call) reached the disk.
C6_Original == last.stale_writes = 0

\* C7 (as claimed): consuming a quota unit is one store mutation (the commit
\* of a generation saves once), and no update is lost: each user's persisted
\* total_generations equals the number of generations committed for them.
C7_Original ==
  /\ last.op = "ghibli_commit" => Len(writes) = 1
  /\ \A u \in Known(disk) : disk.users[u].total_generations = done[u]

\* C8 (as claimed): process_referral saves at most once, and that one save
\* carries every effect of an accepted redemption: the link's uses and
\* total_conversions are one higher than before the call.
C8_Original ==
  last.op = "process_referral" =>
    /\ Len(writes) <= 1
    /\ last.outcome # "fail" =>
         /\ disk.referrals.active_links[last.code].uses
              = pre.referrals.active_links[last.code].uses + 1
         /\ disk.referrals.total_conversions
              = pre.referrals.total_conversions + 1

\* C9: remaining_limit >= 0 for every user in every persisted state: the
\* document on disk after each call and every document a call saved on the
\* way, under every interleaving of the handlers.
C9_QuotaNonNegative ==
  /\ \A u \in Known(disk) : Quota(disk, u) >= 0
  /\ \A i \in 1..Len(writes) :
       \A u \in Known(writes[i]) : Quota(writes[i], u) >= 0

\* C9 witness: a generation is committed for a user whose persisted quota
\* fell to 0 between the handler's pre-check and its commit
C9_Witness ==
  /\ last.op = "ghibli_commit"
  /\ last.u \in Known(pre)
  /\ Quota(pre, last.u) = 0
  /\ Quota(disk, last.u) >= 0

\* the quota modify_user_limit starts from: get_user_data resets it to the
\* role's daily allowance when last_reset_date is not today
QuotaAfterReset(d, u, day) ==
  IF d.users[u].last_reset_date = day THEN Quota(d, u)
  ELSE IF get_user_role(d, u) = "vip" THEN vip_daily_limit ELSE daily_limit

\* C10 (as claimed): for a record with persisted quota q, modify_user_limit
\* with delta d persists max(0, q + d) and returns (True, max(0, q + d)).
C10_Original ==
  (last.op = "modify_user_limit" /\ last.u \in Known(pre)) =>
    /\ Quota(disk, last.u) = max(0, Quota(pre, last.u) + last.amount)
    /\ last.outcome = "ok"
    /\ last.val = Quota(disk, last.u)

\* C10 (amended): the same with q the quota after the daily reset that
\* get_user_data applies first: the persisted quota when last_reset_date is
\* today, the role's daily allowance otherwise.
C10_QuotaClamp ==
  (last.op = "modify_user_limit" /\ last.u \in Known(pre)) =>
    /\ Quota(disk, last.u)
         = max(0, QuotaAfterReset(pre, last.u, today) + last.amount)
    /\ last.outcome = "ok"
    /\ last.val = Quota(disk, last.u)

\* C10 witness: quota 2 and delta -1000 give (True, 0)
C10_Witness ==
  /\ last.op = "modify_user_limit"
  /\ last.u \in Known(pre)
  /\ pre.users[last.u].last_reset_date = today
  /\ Quota(pre, last.u) = 2
  /\ last.amount = -1000
  /\ last.outcome = "ok" /\ last.val = 0
  /\ Quota(disk, last.u) = 0

\* the daily allowance of the role get_user_role resolves: the role lists of
\* config.py come first, the stored role second
Allowance(d, u) ==
  IF u \in owner_ids \cup admin_ids \cup moderator_ids THEN daily_limit
  ELSE IF d.users[u].role = "vip" THEN vip_daily_limit ELSE daily_limit

\* C11: reset crosses the day boundary.  get_user_data for an existing record
\* whose last_reset_date is not today saves, before it returns, the record
\* with last_reset_date = today and remaining_limit = the daily allowance of
\* the resolved role, whatever the quota was; it returns that record.
C11_ResetCrossesDay ==
  (/\ last.op = "get_user_data"
   /\ last.u \in Known(pre)
   /\ pre.users[last.u].last_reset_date # today) =>
    /\ Len(writes) = 1 /\ writes[1] = disk
    /\ disk.users[last.u].last_reset_date = today
    /\ Quota(disk, last.u) = Allowance(pre, last.u)
    /\ last.val = Quota(disk, last.u)

\* C11 witness: quota 0, role user, last reset yesterday; after get_user_data
\* the record holds daily_limit and today's date
C11_Witness ==
  /\ last.op = "get_user_data"
  /\ last.u \in Known(pre)
  /\ Quota(pre, last.u) = 0
  /\ pre.users[last.u].role = "user"
  /\ pre.users[last.u].last_reset_date = today - 1
  /\ Quota(disk, last.u) = daily_limit
  /\ disk.users[last.u].last_reset_date = today

\* C12: reset idempotence within a day.  A get_user_data that directly
\* follows a get_user_data for the same user on the same date saves nothing:
\* remaining_limit and last_reset_date stay as the first call left them.
C12_ResetIdempotent ==
  (last.op = "get_user_data" /\ last.repeat) =>
    /\ last.u \in Known(pre)
    /\ writes = <<>>
    /\ disk = pre
    /\ Quota(disk, last.u) = Quota(pre, last.u)
    /\ disk.users[last.u].last_reset_date = pre.users[last.u].last_reset_date

\* C12 witness: the second of two calls, the first of which created the
\* record
C12_Witness ==
  /\ last.op = "get_user_data" /\ last.repeat
  /\ last.u \in Known(pre)
  /\ pre.users[last.u] = get_user_schema(last.u, today)
  /\ disk.users[last.u] = pre.users[last.u]

\* C13 (as claimed): a user's persisted total_generations never goes from a
\* value to a smaller value, whatever the handlers and their interleaving.
C13_Original ==
  [][\A u \in Known(disk) :
       u \in Known(disk') =>
         disk'.users[u].total_generations >= disk.users[u].total_generations
    ]_vars

Links(d) == d.referrals.active_links

\* the code of the last call is registered and owned by another user
ForeignCode ==
  last.code \in DOMAIN Links(pre) /\ Links(pre)[last.code].user_id # last.u

\* C14: process_referral(A, c) with c not registered or c owned by A returns
\* (False, None), saves nothing and leaves the store as it was (no record is
\* created for A); no user is ever recorded as their own referrer, in the
\* store or in any document saved on the way.
C14_RejectUnknownOrSelf ==
  /\ (last.op = "process_referral" /\ ~ForeignCode) =>
       /\ last.outcome = "fail"
       /\ writes = <<>>
       /\ disk = pre
  /\ \A u \in Known(disk) : Ref(disk, u).referred_by # u
  /\ \A i \in 1..Len(writes) :
       \A u \in Known(writes[i]) : Ref(writes[i], u).referred_by # u

\* C14 witness: a user without a record redeems the code they own
C14_Witness ==
  /\ last.op = "process_referral"
  /\ last.code \in DOMAIN Links(pre)
  /\ Links(pre)[last.code].user_id = last.u
  /\ last.outcome = "fail"
  /\ last.u \notin Known(disk)
  /\ disk = pre

\* the referee of the last call already had referred_by set
AlreadyReferred ==
  /\ last.op = "process_referral"
  /\ last.u \in Known(pre)
  /\ Ref(pre, last.u).referred_by # 0

\* C15 (as claimed): process_referral for a referee whose referred_by is set
\* fails and leaves the persisted store exactly as it was.
C15_Original ==
  AlreadyReferred => (last.outcome = "fail" /\ disk = pre)

\* C15 (amended): it fails and changes nothing but the daily reset of the
\* referee's own record: when the code is registered for another user and
\* the referee's last_reset_date is not today, the referee's remaining_limit
\* is the role's daily allowance and last_reset_date is today; everything
\* else, and the whole store in every other case, is as before.
C15_CleanFailure ==
  AlreadyReferred =>
    /\ last.outcome = "fail"
    /\ disk = IF ForeignCode /\ pre.users[last.u].last_reset_date # today
              THEN [pre EXCEPT
                      !.users[last.u].remaining_limit = Allowance(pre, last.u),
                      !.users[last.u].last_reset_date = today]
              ELSE pre

\* C15 witness: an already referred user redeems again on the next day
C15_Witness ==
  /\ AlreadyReferred /\ ForeignCode
  /\ pre.users[last.u].last_reset_date # today
  /\ last.outcome = "fail"
  /\ Ref(disk, last.u) = Ref(pre, last.u)
  /\ disk.users[last.u].last_reset_date = today

\* C16 (as claimed): a redemption that passes the checks succeeds and raises
\* the link's uses and total_conversions by one each in the persisted store;
\* a failed redemption leaves both as they were.
C16_Original ==
  last.op = "process_referral" =>
    IF last.outcome = "fail"
    THEN /\ Links(disk) = Links(pre)
         /\ disk.referrals.total_conversions = pre.referrals.total_conversions
    ELSE /\ last.outcome = "ok"
         /\ Links(disk)[last.code].uses = Links(pre)[last.code].uses + 1
         /\ disk.referrals.total_conversions
              = pre.referrals.total_conversions + 1

Code(d, u) == Ref(d, u).referral_code

\* C17 (as claimed): no two users hold the same non-empty referral_code, and
\* create_referral_link never replaces (or resets the uses of) an
\* active_links entry that is registered for another owner.
C17_Original ==
  /\ \A a \in Known(disk), b \in Known(disk) :
       (a # b /\ Code(disk, a) # "") => Code(disk, a) # Code(disk, b)
  /\ (last.op = "create_referral_link" /\ ForeignCode) =>
       Links(disk)[last.code] = Links(pre)[last.code]

Top(d, ln) == d.stats[ln.list_name]
TopIds(lst) == {lst[i].user_id : i \in 1..Len(lst)}

\* sorted descending by the metric, at most max_entries entries, at most one
\* entry per user id
TopListOk(lst, sort_key) ==
  /\ \A i \in 1..Len(lst), j \in 1..Len(lst) :
       i < j => /\ lst[i][sort_key] >= lst[j][sort_key]
                /\ lst[i].user_id # lst[j].user_id
  /\ Len(lst) <= 10

\* C18: after every call of update_top_list and in every persisted state,
\* top_users and top_referrers are sorted descending by their metric, hold
\* at most 10 entries and at most one entry per user id.
C18_TopListsOk ==
  /\ \A ln \in TopLists : TopListOk(Top(disk, ln), ln.sort_key)
  /\ \A i \in 1..Len(writes) :
       \A ln \in TopLists : TopListOk(Top(writes[i], ln), ln.sort_key)

\* C18 witness: a call for a user outside a full list whose metric is above
\* the listed ones: the user enters at the head and the list stays at 10
C18_Witness ==
  /\ last.op = "update_top_list" /\ last.code = "top_users"
  /\ Len(pre.stats.top_users) = 10
  /\ last.u \notin TopIds(pre.stats.top_users)
  /\ Len(disk.stats.top_users) = 10
  /\ disk.stats.top_users[1].user_id = last.u

Inserted == {u \in TopUsers : done[u] = 1}

\* C19: leaderboard bound.  After update_top_list has been called once for
\* each of n distinct users with pairwise distinct metrics, in any order,
\* from the empty list, the list holds exactly the min(n, 10) users with the
\* highest metrics, each with its metric, sorted descending.
C19_TopTen ==
  LET lst == disk.stats.top_users IN
  /\ Len(lst) = IF Cardinality(Inserted) < 10 THEN Cardinality(Inserted) ELSE 10
  /\ TopIds(lst) \subseteq Inserted
  /\ \A i \in 1..Len(lst) :
       /\ lst[i].total_generations = TopMetric(lst[i].user_id)
       /\ \A j \in 1..Len(lst) :
            i < j => lst[i].total_generations > lst[j].total_generations
       /\ \A u \in Inserted \ TopIds(lst) :
            TopMetric(u) < lst[i].total_generations

\* C19 witness: all users (more than 10) were inserted and the list holds 10
C19_Witness ==
  /\ Cardinality(Inserted) = NumTopUsers
  /\ Cardinality(Inserted) > 10
  /\ Len(disk.stats.top_users) = 10

\* C20: stats.total_users equals the number of keys of the users mapping in
\* every persisted state: the document on disk after each call and every
\* document a call saved on the way, the creating save of get_user_data
\* included.
C20_TotalUsers ==
  /\ disk.stats.total_users = Cardinality(Known(disk))
  /\ \A i \in 1..Len(writes) :
       writes[i].stats.total_users = Cardinality(Known(writes[i]))

\* C20 witness: get_user_data has just created the second record
C20_Witness ==
  /\ last.op = "get_user_data"
  /\ last.u \notin Known(pre)
  /\ Len(writes) = 1 /\ writes[1] = disk
  /\ Known(disk) = Known(pre) \cup {last.u}
  /\ Cardinality(Known(disk)) = 2
  /\ disk.stats.total_users = 2

\* ---------------------------------------------------------------- C21
\* C21: a user record is never deleted: every user known before an
\* operation is known in each store the operation persists, each persisted
\* store keeps the users of the one persisted before it, and the store left
\* behind keeps them all.
C21_Original ==
  /\ \A i \in 1..Len(writes) : Known(pre) \subseteq Known(writes[i])
  /\ \A i \in 1..Len(writes) : \A j \in i..Len(writes) :
       Known(writes[i]) \subseteq Known(writes[j])
  /\ \A i \in 1..Len(writes) : Known(writes[i]) \subseteq Known(disk)

\* ---------------------------------------------------------------- C22
SaveKilledBeforeReplace ==
  /\ fs.op = "save_database"
  /\ fs.ret = "killed"
  /\ fs.killed_at = "replace"

\* C22: while save_database is writing the temporary file or is about to
\* replace the primary document, and after a kill at either point, the
\* primary document is what it was before the call; at a kill before the
\* replace the temporary file holds the complete new store.
C22_CrashBeforeReplace ==
  /\ fs.pc \in {"open_temp", "dump_temp", "replace"} =>
       fs.primary = fs.before
  /\ (fs.ret = "killed" /\ fs.killed_at \in {"dump_temp", "replace"}) =>
       fs.primary = fs.before
  /\ SaveKilledBeforeReplace => fs.temp = Doc(fs.db)

C22_Witness ==
  /\ SaveKilledBeforeReplace
  /\ fs.before.kind = "doc"
  /\ fs.temp.kind = "doc"
  /\ fs.temp # fs.primary

\* ---------------------------------------------------------------- C23
\* C23: the primary document is never a half-written store, neither during
\* a save_database call nor after a crash inside one.
C23_Original == fs.primary.kind # "partial"

\* ---------------------------------------------------------------- C24
\* C24: when save_database returns False the temporary file does not exist
\* and the primary document is what it was before the call.
C24_Original ==
  (fs.op = "save_database" /\ fs.pc = "idle" /\ fs.ret = "false") =>
    /\ fs.temp = Absent
    /\ fs.primary = fs.before

\* ---------------------------------------------------------------- C25
\* C25: once save_database has replaced the primary document, it returns
\* True and the primary document is a complete document holding the new
\* store, whatever fails in the backup phase.
C25_Original ==
  (fs.op = "save_database" /\ fs.committed /\ fs.pc = "idle"
     /\ fs.ret \in {"true", "false"}) =>
    /\ fs.ret = "true"
    /\ fs.primary.kind = "doc"
    /\ fs.primary.db.v = fs.db.v

\* ---------------------------------------------------------------- C26
LoadFinished ==
  /\ fs.op = "load_database"
  /\ fs.pc = "idle"
  /\ fs.ret \in {"db", "raised"}
  /\ ~fs.fault

FreshStoreReturned ==
  /\ fs.ret = "db"
  /\ fs.db.v = DefaultDb.v
  /\ fs.primary = Doc(fs.db)

Quarantined(c) == {c[t] : t \in DOMAIN c}

\* C26: a load_database call in which no file operation fails returns and
\* persists the schema defaults when the document was absent; when the
\* document does not parse it also keeps the document under a quarantine
\* name and keeps every document quarantined before.
C26_Original ==
  LoadFinished =>
    /\ fs.prior.primary.kind = "absent" => FreshStoreReturned
    /\ fs.prior.primary.kind \in {"garbage", "undecodable", "partial"} =>
         /\ FreshStoreReturned
         /\ fs.prior.primary \in Quarantined(fs.corrupt)
         /\ Quarantined(fs.prior.corrupt) \subseteq Quarantined(fs.corrupt)

\* ---------------------------------------------------------------- C27
\* C27: when a well-formed document cannot be read, load_database raises to
\* its caller and leaves the document and the quarantined files as they
\* were.
C27_Original ==
  (fs.op = "load_database" /\ fs.read_failed
     /\ fs.prior.primary.kind = "doc") =>
    /\ fs.pc = "idle" => fs.ret = "raised"
    /\ fs.primary = fs.prior.primary
    /\ fs.corrupt = fs.prior.corrupt

\* ---------------------------------------------------------------- C28
\* C28: a ghibli_command whose image generation failed persists nothing and
\* leaves the store, and so the user's quota, generation count and last
\* generation time and the global statistics and top lists, as they were.
C28_FailureDebitsNothing ==
  last.op = "ghibli_fail" => disk = pre /\ writes = <<>>

C28_Witness ==
  /\ last.op = "ghibli_fail"
  /\ last.u \in Known(disk)
  /\ Quota(disk, last.u) > 0

\* ---------------------------------------------------------------- C29
Listed(cfg, role) ==
  UNION {cfg[i].user_ids : i \in {k \in 1..Len(cfg) : cfg[k].role = role}}

StoredRole(d, u) ==
  IF u \in DOMAIN d.users /\ "role" \in DOMAIN d.users[u]
  THEN d.users[u].role
  ELSE "user"

ResolvedRole(cfg, d, u) ==
  IF u \in Listed(cfg, "owner") THEN "owner"
  ELSE IF u \in Listed(cfg, "admin") THEN "admin"
  ELSE IF u \in Listed(cfg, "moderator") THEN "moderator"
  ELSE StoredRole(d, u)

\* C29: get_user_role returns owner, admin or moderator, in that order of
\* precedence, for an identity the configuration lists, whatever role is
\* stored; for any other identity it returns the stored role, and user when
\* there is no record or the record has no role field.
C29_RoleResolution ==
  last.op = "get_user_role" =>
    last.ret = ResolvedRole(last.cfg, disk, last.u)

C29_Witness ==
  /\ last.op = "get_user_role"
  /\ last.u \in Listed(last.cfg, "admin") \cap Listed(last.cfg, "moderator")
  /\ last.u \in DOMAIN disk.users
  /\ StoredRole(disk, last.u) = "vip"
  /\ last.ret = "admin"

\* ---------------------------------------------------------------- C30
Configured(cfg, role) == \E i \in 1..Len(cfg) : cfg[i].role = role

Granted(cfg, role) ==
  UNION {cfg[i].permissions : i \in {k \in 1..Len(cfg) : cfg[k].role = role}}

\* C30: has_permission is true for every permission when the resolved role
\* is owner; for another role it is true exactly when the role's configured
\* permissions contain the permission or all, and false for a role with no
\* configured permissions.
C30_Permission ==
  last.op = "has_permission" =>
    LET role == ResolvedRole(last.cfg, disk, last.u)
    IN last.ret = IF role = "owner" THEN TRUE
                  ELSE IF Configured(last.cfg, role)
                  THEN \/ last.permission \in Granted(last.cfg, role)
                       \/ "all" \in Granted(last.cfg, role)
                  ELSE FALSE

C30_Witness ==
  /\ last.op = "has_permission"
  /\ ResolvedRole(last.cfg, disk, last.u) = "admin"
  /\ last.permission \notin Granted(last.cfg, "admin")
  /\ "all" \in Granted(last.cfg, "admin")
  /\ last.ret = TRUE

\* ---------------------------------------------------------------- C31
\* C31: update_user_data for an identity without a record fails, persists
\* nothing and creates no record; modify_user_limit for such an identity
\* succeeds, persists the new record and then the record with the delta
\* applied to the daily allowance.
C31_NotFound ==
  /\ (last.op = "update_user_data" /\ last.u \notin Known(pre)) =>
       /\ last.outcome = "fail"
       /\ disk = pre
       /\ writes = <<>>
  /\ (last.op = "modify_user_limit" /\ last.u \notin Known(pre)) =>
       /\ last.outcome = "ok"
       /\ Len(writes) = 2
       /\ last.u \in Known(writes[1])
       /\ Quota(writes[1], last.u) = daily_limit
       /\ disk = writes[2]
       /\ Quota(disk, last.u) = max(0, daily_limit + last.amount)
       /\ last.val = Quota(disk, last.u)

C31_Witness ==
  /\ last.op = "update_user_data"
  /\ last.u \notin Known(pre)
  /\ last.outcome = "fail"
  /\ Known(pre) # {}

\* ---------------------------------------------------------------- C32
\* C32: no ledger operation raises.
C32_Original == last.outcome # "raise"

\* ---------------------------------------------------------------- C33
\* the entry of user_id built from the whole of user_data
FullEntry(user_id, user_data, sort_key) ==
  (sort_key :> user_data[sort_key]) @@
  [user_id |-> user_id, username |-> user_data.username,
   first_name |-> user_data.first_name, last_name |-> user_data.last_name]

\* the list before sorting: the user's entry replaced where it stands, or
\* appended
Upserted(lst, e) ==
  IF e.user_id \in TopIds(lst)
  THEN [i \in 1..Len(lst) |-> IF lst[i].user_id = e.user_id THEN e ELSE lst[i]]
  ELSE Append(lst, e)

\* the place of lst[i] in the stable descending order of lst
Rank(lst, sort_key, i) ==
  1 + Cardinality({j \in 1..Len(lst) : lst[j][sort_key] > lst[i][sort_key]})
    + Cardinality({j \in 1..(i - 1) : lst[j][sort_key] = lst[i][sort_key]})

\* new is lst in stable descending order cut after the tenth entry
StableTopTen(lst, sort_key, new) ==
  /\ Len(new) = IF Len(lst) < 10 THEN Len(lst) ELSE 10
  /\ \A i \in 1..Len(lst) :
       Rank(lst, sort_key, i) <= 10 => new[Rank(lst, sort_key, i)] = lst[i]

\* C33: update_top_list replaces the user's entry by the metric and the
\* display fields (username, first name, last name) of user_data where it
\* stands, or appends such an entry; the result is that list in stable
\* descending order cut after the tenth entry, and nothing else of the store
\* changes.
C33_Original ==
  (last.op = "update_top_list" /\ last.outcome = "ok") =>
    LET old == pre.stats[last.list_name]
        new == disk.stats[last.list_name]
        e == FullEntry(last.u, last.user_data, last.sort_key)
    IN /\ StableTopTen(Upserted(old, e), last.sort_key, new)
       /\ last.u \in TopIds(old) => Len(new) = Len(old)
       /\ disk = [pre EXCEPT !.stats[last.list_name] = new]

\* ---------------------------------------------------------------- C34
\* C34: on one day and without grants or bonuses a user completes at most
\* as many generations as the daily allowance the record was created with,
\* however the handlers overlap, and a handler that finds no quota left
\* starts no transformation.
C34_Original ==
  /\ \A u \in Users : done[u] <= daily_limit
  /\ (last.op = "ghibli_precheck" /\ Quota(disk, last.u) = 0) =>
       last.outcome = "fail"

\* ---------------------------------------------------------------- C35
\* C35: the code extracted from the start parameter of a user's referral
\* link is the code registered for that user in active_links, and a
\* different user who was never referred and starts the bot with that link
\* is referred successfully.
C35_Original ==
  (last.op = "start_link" /\ last.u # last.val) =>
    /\ last.code \in RegisteredCodes(pre, last.val)
    /\ (last.u \in Known(pre) => Ref(pre, last.u).referred_by = 0) =>
         last.outcome = "ok"

\* ---------------------------------------------------------------- C36
RECURSIVE SumGenerations(_, _)
SumGenerations(d, us) ==
  IF us = {} THEN 0
  ELSE LET u == CHOOSE x \in us : TRUE
       IN d.users[u].total_generations + SumGenerations(d, us \ {u})

\* C36: in the store left by every operation, stats.total_generations is
\* the sum of the users' total_generations.
C36_Original ==
  disk.stats.total_generations = SumGenerations(disk, Known(disk))

\* ---------------------------------------------------------------- C37
\* C37: in the store left by every operation each active_links entry
\* belongs to a known user whose referral_code is the entry's key, and each
\* user with a referral_code has exactly one entry, under that code.
C37_Original ==
  /\ \A c \in DOMAIN Links(disk) :
       /\ Links(disk)[c].user_id \in Known(disk)
       /\ Code(disk, Links(disk)[c].user_id) = c
  /\ \A u \in Known(disk) :
       Code(disk, u) # "" => RegisteredCodes(disk, u) = {Code(disk, u)}

\* ---------------------------------------------------------------- C38
\* C38: in the store left by every operation each top_users entry carries
\* the total_generations of its user's record and each top_referrers entry
\* the total_referrals of its user's record.
C38_LeaderboardsAgree ==
  /\ \A i \in 1..Len(disk.stats.top_users) :
       LET e == disk.stats.top_users[i]
       IN /\ e.user_id \in Known(disk)
          /\ e.total_generations = disk.users[e.user_id].total_generations
  /\ \A i \in 1..Len(disk.stats.top_referrers) :
       LET e == disk.stats.top_referrers[i]
       IN /\ e.user_id \in Known(disk)
          /\ e.total_referrals = Ref(disk, e.user_id).total_referrals

\* C38 witness: a generation committed from a copy that an overlapping
\* handler's commit had made stale
C38_Witness ==
  /\ last.op = "ghibli_commit"
  /\ done[last.u] = 2
  /\ disk.users[last.u].total_generations = 1
  /\ \E i \in 1..Len(disk.stats.top_users) :
       /\ disk.stats.top_users[i].user_id = last.u
       /\ disk.stats.top_users[i].total_generations = 1

\* ---------------------------------------------------------------- C39
\* C39: after a user holding manage_limits pressed the add button of a
\* target the target's remaining_limit is its quota plus 5, and after the
\* reduce button it is max(0, quota - 5), the quota being the one
\* get_user_data returns for the target.
C39_Original ==
  (last.op = "button_callback"
     /\ has_permission(USER_ROLES, pre, last.val, "manage_limits")) =>
    /\ last.code = "add" =>
         Quota(disk, last.u) = QuotaAfterReset(pre, last.u, today) + 5
    /\ last.code = "reduce" =>
         Quota(disk, last.u) = max(0, QuotaAfterReset(pre, last.u, today) - 5)

====
